---- MODULE Spec2Model ----
(***************************************************************************)
(* Model of src/src/generate-calendar.js (pays-bigouden-calendar).         *)
(*                                                                         *)
(* Four specifications share one set of variables:                         *)
(*   SpecExtract  extractHwSheetFromHtml, run statement by statement       *)
(*   SpecDates    parseTime / parseDateOccurrence on one occurrence        *)
(*   SpecCal      parseEventDates / generateCalendar, run at several       *)
(*                instants over the same event                             *)
(*   Spec         main / fetchAllEvents / fetchUrlsFromSitemap /           *)
(*                fetchEventFromUrl (sitemaps, batches, deduplication)     *)
(* Text is a sequence of one-character strings; JavaScript indices are     *)
(* kept 0-based, as in the source.                                         *)
(***************************************************************************)
EXTENDS Integers, Sequences, FiniteSets, TLC

VARIABLES
    \* extractHwSheetFromHtml
    html, xpc, startIndex, i, braceCount, endIndex, started, hwSheet, thrown,
    literal,
    \* the clock (new Date()) and the process's UTC offset, in minutes
    now, tz,
    \* parseDateOccurrence on one occurrence
    dateInfo, dpc, resolved,
    \* generateCalendar, run once per clock value over the same events
    events, calendar, issued, cpc,
    \* main / fetchAllEvents
    pc, sitemapIdx, allUrls, batchI, inflight, results, allEvents,
    seen, fetchCount, exitCode

xvars == <<html, xpc, startIndex, i, braceCount, endIndex, started, hwSheet,
           thrown, literal>>

dvars == <<dateInfo, dpc, resolved>>

cvars == <<events, calendar, issued, cpc>>

ovars == <<pc, sitemapIdx, allUrls, batchI, inflight, results, allEvents,
           seen, fetchCount, exitCode>>

vars == <<xvars, now, tz, dvars, cvars, ovars>>

-----------------------------------------------------------------------------
(* Bounds of the model *)

\* raw document bodies are all texts of at most this many characters
MaxRaw == 4
\* string values of embedded literals have at most this many characters
MaxStrLen == 2

-----------------------------------------------------------------------------
(* JavaScript string primitives *)

Min(S) == CHOOSE x \in S : \A y \in S : x <= y

Max(S) == CHOOSE x \in S : \A y \in S : x >= y

\* s[k], 0-based
CharAt(s, k) == s[k + 1]

\* String.prototype.indexOf
IndexOf(s, m) ==
    LET hits == {p \in 0 .. (Len(s) - Len(m)) :
                    SubSeq(s, p + 1, p + Len(m)) = m}
    IN  IF hits = {} THEN -1 ELSE Min(hits)

\* String.prototype.substring: arguments clamped to [0, length], swapped
\* when a > b
Substring(s, a, b) ==
    LET ca == Max({0, Min({a, Len(s)})})
        cb == Max({0, Min({b, Len(s)})})
        lo == Min({ca, cb})
        hi == Max({ca, cb})
    IN  SubSeq(s, lo + 1, hi)

\* "HwSheet = {"
Marker == <<"H", "w", "S", "h", "e", "e", "t", " ", "=", " ", "{">>

\* the literal starts this many characters after the marker's start
MarkerOffset == 10

-----------------------------------------------------------------------------
(* JSON values and JSON.parse, for texts made of objects and strings *)

NoData == [t |-> "null"]

Str(c) == [t |-> "str", c |-> c]

Obj(m) == [t |-> "obj", m |-> m]

Fail == [ok |-> FALSE, val |-> NoData, next |-> 0]

\* object member insertion: a repeated key keeps its place and takes the
\* later value
PutMember(m, k, v) ==
    IF \E j \in 1 .. Len(m) : m[j].k = k
    THEN [j \in 1 .. Len(m) |-> IF m[j].k = k THEN [k |-> k, v |-> v] ELSE m[j]]
    ELSE Append(m, [k |-> k, v |-> v])

\* a string token at 1-based position p: no escapes in the alphabet, so it
\* runs to the next quote
ParseString(s, p) ==
    IF p > Len(s) \/ s[p] # "\""
    THEN Fail
    ELSE LET qs == {q \in (p + 1) .. Len(s) : s[q] = "\""}
         IN  IF qs = {} THEN Fail
             ELSE [ok |-> TRUE, val |-> Str(SubSeq(s, p + 1, Min(qs) - 1)),
                   next |-> Min(qs) + 1]

RECURSIVE ParseValue(_, _)
RECURSIVE ParseMembers(_, _, _)

\* members of an object from position p (a key is expected there)
ParseMembers(s, p, acc) ==
    LET key == ParseString(s, p)
    IN  IF ~key.ok \/ key.next > Len(s) \/ s[key.next] # ":"
        THEN Fail
        ELSE LET v == ParseValue(s, key.next + 1)
             IN  IF ~v.ok \/ v.next > Len(s)
                 THEN Fail
                 ELSE LET acc2 == PutMember(acc, key.val.c, v.val)
                      IN  IF s[v.next] = "}"
                          THEN [ok |-> TRUE, val |-> Obj(acc2),
                                next |-> v.next + 1]
                          ELSE IF s[v.next] = ","
                          THEN ParseMembers(s, v.next + 1, acc2)
                          ELSE Fail

ParseValue(s, p) ==
    IF p > Len(s) THEN Fail
    ELSE IF s[p] = "\"" THEN ParseString(s, p)
    ELSE IF s[p] = "{"
    THEN IF p + 1 <= Len(s) /\ s[p + 1] = "}"
         THEN [ok |-> TRUE, val |-> Obj(<<>>), next |-> p + 2]
         ELSE ParseMembers(s, p + 1, <<>>)
    ELSE Fail

\* JSON.parse: one value, and nothing after it; ok = FALSE is SyntaxError
JSONParse(s) ==
    LET r == ParseValue(s, 1)
    IN  IF r.ok /\ r.next = Len(s) + 1 THEN r ELSE Fail

\* JSON.stringify (no whitespace), used to build the documents
RECURSIVE Stringify(_)
RECURSIVE StringifyMembers(_, _)

StringifyMembers(m, j) ==
    IF j > Len(m) THEN <<>>
    ELSE (IF j > 1 THEN <<",">> ELSE <<>>)
         \o <<"\"">> \o m[j].k \o <<"\"", ":">> \o Stringify(m[j].v)
         \o StringifyMembers(m, j + 1)

Stringify(v) ==
    IF v.t = "str" THEN <<"\"">> \o v.c \o <<"\"">>
    ELSE <<"{">> \o StringifyMembers(v.m, 1) \o <<"}">>

-----------------------------------------------------------------------------
(* Documents handed to extractHwSheetFromHtml *)

RECURSIVE SeqsUpTo(_, _)
SeqsUpTo(S, n) ==
    IF n = 0 THEN {<<>>}
    ELSE LET prev == SeqsUpTo(S, n - 1)
         IN  prev \cup {Append(t, c) : t \in {u \in prev : Len(u) = n - 1}, c \in S}

RawAlphabet == {"{", "}", "\"", "a", ":"}

RawBodies == SeqsUpTo(RawAlphabet, MaxRaw)

StrContents == SeqsUpTo({"a", "{", "}"}, MaxStrLen)

StrVals == {Str(c) : c \in StrContents}

FlatObjs == {Obj(<<>>)} \cup {Obj(<<[k |-> <<"a">>, v |-> x]>>) : x \in StrVals}

Literals ==
    FlatObjs
    \cup {Obj(<<[k |-> <<"a">>, v |-> x]>>) : x \in FlatObjs}
    \cup {Obj(<<[k |-> <<"a">>, v |-> x], [k |-> <<"b">>, v |-> y]>>) :
            x \in FlatObjs, y \in {Str(<<>>), Str(<<"}">>), Obj(<<>>)}}

\* text before the marker, and after the literal
Prefixes == {<<>>, <<"{", "a">>, <<"}">>}

Suffixes == {<<>>, <<";">>, <<";", "}">>, <<"{">>}

MarkerPrefix == SubSeq(Marker, 1, MarkerOffset)

\* [html, literal]: literal is the value the document embeds after the
\* marker, NoData when the document was not built around one
Documents ==
    {[html |-> pre \o mid \o body, literal |-> NoData] :
        pre \in Prefixes, mid \in {<<>>, MarkerPrefix}, body \in RawBodies}
    \cup
    {[html |-> pre \o MarkerPrefix \o Stringify(v) \o suf, literal |-> v] :
        pre \in Prefixes, v \in Literals, suf \in Suffixes}

-----------------------------------------------------------------------------
(* JavaScript Date: an instant is a number of minutes since the epoch (UTC); *)
(* an Invalid Date has no time value and compares false with everything.     *)
(* Local time is UTC + tz, a fixed offset.                                   *)

MinutesPerDay == 1440

InvalidDate == [valid |-> FALSE, t |-> 0]

Instant(t) == [valid |-> TRUE, t |-> t]

\* a < b on Dates (false when either is invalid)
DateLt(a, b) == a.valid /\ b.valid /\ a.t < b.t

\* Date strings of the source records: absent, unparseable, or the
\* date-only form YYYY-MM-DD of day number d
NoDateStr == [k |-> "missing", d |-> 0]

BadDateStr == [k |-> "bad", d |-> 0]

DayStr(d) == [k |-> "day", d |-> d]

\* new Date(string): a date-only string is midnight UTC of that day
NewDate(str) ==
    IF str.k = "day" THEN Instant(str.d * MinutesPerDay) ELSE InvalidDate

\* Date.prototype.setHours(h, m, 0, 0): h:m local time on the local date of
\* the instant; hours and minutes beyond a day carry over
SetHours(date, h, m, offset) ==
    IF ~date.valid THEN InvalidDate
    ELSE LET localDay == (date.t + offset) \div MinutesPerDay
         IN  Instant(localDay * MinutesPerDay + h * 60 + m - offset)

-----------------------------------------------------------------------------
(* transformHwSheetToEvent: the startTime text of a period *)

\* a null or undefined text (no sequence of characters)
NoText == <<"null">>

\* String.prototype.replace(":", "h"): the first colon only
ReplaceFirstColon(s) ==
    LET ps == {p \in 1 .. Len(s) : s[p] = ":"}
    IN  IF ps = {} THEN s
        ELSE [p \in 1 .. Len(s) |-> IF p = Min(ps) THEN "h" ELSE s[p]]

\* lines 72-74; "a" stands for the letter a-grave
FormatStartTime(raw) ==
    IF raw = NoText \/ raw = <<>> THEN NoText
    ELSE <<"a", " ">> \o ReplaceFirstColon(Substring(raw, 0, 5))

-----------------------------------------------------------------------------
(* parseTime *)

DigitChars == <<"0", "1", "2", "3", "4", "5", "6", "7", "8", "9">>

IsDigit(c) == \E k \in 1 .. 10 : DigitChars[k] = c

DigitVal(c) == (CHOOSE k \in 1 .. 10 : DigitChars[k] = c) - 1

IsDigitAt(s, p) == p >= 1 /\ p <= Len(s) /\ IsDigit(s[p])

IsSepAt(s, p) == p >= 1 /\ p <= Len(s) /\ s[p] \in {"h", ":"}

\* the number of digits \d{1,2} takes at p so that [h:] follows (greedy,
\* then backtracking), 0 when the pattern does not match at p
HourDigitsAt(s, p) ==
    IF IsDigitAt(s, p) /\ IsDigitAt(s, p + 1) /\ IsSepAt(s, p + 2) THEN 2
    ELSE IF IsDigitAt(s, p) /\ IsSepAt(s, p + 1) THEN 1
    ELSE 0

NoTime == [match |-> FALSE, hours |-> 0, minutes |-> 0]

\* the positions where the pattern matches
MatchPositions(timeString) ==
    {p \in 1 .. Len(timeString) : HourDigitsAt(timeString, p) > 0}

\* parseInt of the n digits of s from position p
ParseInt(s, p, n) ==
    IF n = 2 THEN 10 * DigitVal(s[p]) + DigitVal(s[p + 1]) ELSE DigitVal(s[p])

\* lines 242-245: the groups of the match at p, whose hour has n digits;
\* the minutes group is optional and defaults to "0"
MatchGroups(timeString, p, n) ==
    [match |-> TRUE,
     hours |-> ParseInt(timeString, p, n),
     minutes |-> IF IsDigitAt(timeString, p + n + 1) /\ IsDigitAt(timeString, p + n + 2)
                 THEN ParseInt(timeString, p + n + 1, 2)
                 ELSE 0]

\* the leftmost match
FirstMatch(timeString, p) == MatchGroups(timeString, p, HourDigitsAt(timeString, p))

\* lines 239-246: /(\d{1,2})[h:](\d{2})?/, leftmost match
ParseTime(timeString) ==
    IF timeString = NoText THEN NoTime
    ELSE IF MatchPositions(timeString) = {} THEN NoTime
    ELSE FirstMatch(timeString, Min(MatchPositions(timeString)))

-----------------------------------------------------------------------------
(* parseDateOccurrence *)

\* CONFIG.defaultEventDurationHours
DefaultEventDurationHours == 2

None == [some |-> FALSE, start |-> InvalidDate, end |-> InvalidDate]

Some(a, b) == [some |-> TRUE, start |-> a, end |-> b]

\* line 259
RecomputesEnd(di) == di.endDate.k = "missing" \/ di.oneday

DefaultEndDropsMinutes(startDate, time, offset) ==
    SetHours(startDate, time.hours + DefaultEventDurationHours, 0, offset)

\* lines 261-266
DefaultEnd(startDate, time, offset) ==
    SetHours(startDate, time.hours + DefaultEventDurationHours, time.minutes, offset)

\* line 270
IsExpired(endDate, clock) == DateLt(endDate, clock)

\* lines 257-258: the start with the time of day applied
StartWithTime(startDate0, time, offset) ==
    IF time.match THEN SetHours(startDate0, time.hours, time.minutes, offset)
    ELSE startDate0

\* line 254: the end before any time of day is applied
InitialEnd(di, startDate0) ==
    IF di.endDate.k # "missing" THEN NewDate(di.endDate) ELSE startDate0

\* lines 259-267: the end, recomputed from the start when there is a time
\* and no end date or the oneday flag
EndWithTime(di, startDate, endDate0, time, offset) ==
    IF time.match /\ RecomputesEnd(di) THEN DefaultEnd(startDate, time, offset)
    ELSE endDate0

\* lines 256-268, for the parsed start date and time
ResolveWith(di, startDate0, time, offset) ==
    [start |-> StartWithTime(startDate0, time, offset),
     end |-> EndWithTime(di, StartWithTime(startDate0, time, offset),
                         InitialEnd(di, startDate0), time, offset)]

\* lines 252-268: the start and end instants before the expiry test
ResolveDates(di, offset) ==
    ResolveWith(di, NewDate(di.startDate), ParseTime(di.startTime), offset)

\* lines 270-274
ExpiryFilter(r, clock) ==
    IF IsExpired(r.end, Instant(clock)) THEN None ELSE Some(r.start, r.end)

\* lines 248-275, with the clock and the UTC offset it reads made explicit
ParseDateOccurrence(di, clock, offset) ==
    IF di.startDate.k = "missing" THEN None
    ELSE ExpiryFilter(ResolveDates(di, offset), clock)

-----------------------------------------------------------------------------
(* Occurrences handed to parseDateOccurrence *)

\* days are numbered 0 .. MaxDay
MaxDay == 2

\* the clock advances in steps of half a day
ClockStep == MinutesPerDay \div 2

TZOffsets == {-60, 0, 60}

Clocks == {k * ClockStep : k \in 0 .. ((MaxDay + 1) * (MinutesPerDay \div ClockStep))}

DateStrs == {NoDateStr, BadDateStr} \cup {DayStr(d) : d \in 0 .. MaxDay}

\* schedules[0].startTime of the source record
RawStartTimes ==
    { NoText, <<>>,
      <<"1", "4", ":", "3", "0", ":", "0", "0">>,
      <<"0", "9", ":", "1", "5", ":", "0", "0">>,
      <<"9", ":", "0", "0">>,
      <<"1", "4", "h">>,
      <<"2", "1", ":", "5", "9", ":", "0", "0">>,
      <<"2", "2", ":", "0", "0", ":", "0", "0">>,
      <<"2", "3", ":", "3", "0", ":", "0", "0">>,
      <<"2", "5", ":", "0", "0">>,
      <<"1", "4", "3", "0">>,
      <<"m", "i", "d", "i">> }

DateInfos ==
    [oneday : BOOLEAN, startDate : DateStrs, endDate : DateStrs,
     startTime : {FormatStartTime(r) : r \in RawStartTimes}]

IdleDateInfo ==
    [oneday |-> FALSE, startDate |-> NoDateStr, endDate |-> NoDateStr,
     startTime |-> NoText]

OIdle ==
    /\ pc = "idle"
    /\ sitemapIdx = 0
    /\ allUrls = <<>>
    /\ batchI = 0
    /\ inflight = {}
    /\ results = <<>>
    /\ allEvents = <<>>
    /\ seen = <<>>
    /\ fetchCount = <<>>
    /\ exitCode = 0

CIdle ==
    /\ events = <<>>
    /\ calendar = <<>>
    /\ issued = {}
    /\ cpc = "idle"

DIdle ==
    /\ dateInfo = IdleDateInfo
    /\ dpc = "idle"
    /\ resolved = None

DInit ==
    /\ html = <<>> /\ literal = NoData /\ xpc = "idle"
    /\ startIndex = 0 /\ i = 0 /\ braceCount = 0 /\ endIndex = 0
    /\ started = FALSE /\ hwSheet = NoData /\ thrown = FALSE
    /\ now \in Clocks
    /\ tz \in TZOffsets
    /\ dateInfo \in DateInfos
    /\ dpc = "call"
    /\ resolved = None
    /\ CIdle
    /\ OIdle

Resolve ==
    /\ dpc = "call"
    /\ resolved' = ParseDateOccurrence(dateInfo, now, tz)
    /\ dpc' = "done"
    /\ UNCHANGED <<xvars, now, tz, dateInfo, cvars, ovars>>

DNext == Resolve

SpecDates == DInit /\ [][DNext]_vars

-----------------------------------------------------------------------------
(* parseEventDates and generateCalendar *)

\* the positions (1-based) of the occurrences of dates, from j on, that
\* parseDateOccurrence resolves: map(parseDateOccurrence).filter(Boolean)
\* keeps them in source order
RECURSIVE KeptFrom(_, _, _, _)
KeptFrom(dates, j, clock, offset) ==
    IF j > Len(dates) THEN <<>>
    ELSE (IF ParseDateOccurrence(dates[j], clock, offset).some
          THEN <<j>> ELSE <<>>)
         \o KeptFrom(dates, j + 1, clock, offset)

\* a resolved occurrence with the position j it had in event.dates
WithSrc(r, j) == [start |-> r.start, end |-> r.end, src |-> j]

\* the resolved occurrences at the kept positions
ResolvedAt(event, kept, clock, offset) ==
    [n \in 1 .. Len(kept) |->
        WithSrc(ParseDateOccurrence(event.dates[kept[n]], clock, offset), kept[n])]

\* lines 277-283
ParseEventDates(event, clock, offset) ==
    IF Len(event.dates) = 0 THEN <<>>
    ELSE ResolvedAt(event, KeptFrom(event.dates, 1, clock, offset), clock, offset)

\* line 335: `${event.sheetId}-${i}@pays-bigouden-calendar`
EntryId(sheetId, index) == [sheetId |-> sheetId, index |-> index]

\* lines 331-347: one entry per resolved occurrence, numbered from 0 in the
\* resolved list; at records the clock of the run
EntriesFor(event, dates, clock) ==
    [n \in 1 .. Len(dates) |->
        [id |-> EntryId(event.sheetId, n - 1),
         start |-> dates[n].start, end |-> dates[n].end,
         sheetId |-> event.sheetId, src |-> dates[n].src, at |-> clock]]

\* lines 323-347 for one event (an event without resolved occurrences gives
\* no entry)
EntriesOf(event, clock, offset) ==
    EntriesFor(event, ParseEventDates(event, clock, offset), clock)

\* lines 322-348: the entries handed to calendar.createEvent, in order
RECURSIVE GenerateCalendar(_, _, _, _)
GenerateCalendar(evs, n, clock, offset) ==
    IF n > Len(evs) THEN <<>>
    ELSE EntriesOf(evs[n], clock, offset) \o GenerateCalendar(evs, n + 1, clock, offset)

\* an event has at most this many occurrences
MaxDates == 2

RECURSIVE SeqsOfLen(_, _)
SeqsOfLen(S, n) ==
    IF n = 0 THEN {<<>>}
    ELSE {Append(t, c) : t \in SeqsOfLen(S, n - 1), c \in S}

Afternoon == FormatStartTime(<<"1", "4", ":", "3", "0", ":", "0", "0">>)

\* occurrences of the events of a run
CalDateInfos ==
    { [oneday |-> FALSE, startDate |-> DayStr(0), endDate |-> NoDateStr, startTime |-> NoText],
      [oneday |-> TRUE, startDate |-> DayStr(1), endDate |-> DayStr(1), startTime |-> Afternoon],
      [oneday |-> FALSE, startDate |-> DayStr(1), endDate |-> DayStr(MaxDay), startTime |-> Afternoon],
      [oneday |-> FALSE, startDate |-> DayStr(MaxDay), endDate |-> NoDateStr, startTime |-> NoText],
      [oneday |-> FALSE, startDate |-> BadDateStr, endDate |-> NoDateStr, startTime |-> NoText],
      [oneday |-> FALSE, startDate |-> DayStr(1), endDate |-> BadDateStr, startTime |-> NoText],
      [oneday |-> FALSE, startDate |-> NoDateStr, endDate |-> DayStr(MaxDay), startTime |-> Afternoon] }

DateLists == UNION {SeqsOfLen(CalDateInfos, n) : n \in 0 .. MaxDates}

\* the deduplicated events of a run: one event, or two with distinct sheetIds
EventLists ==
    {<<[sheetId |-> "s1", dates |-> ds]>> : ds \in DateLists}
    \cup {<<[sheetId |-> "s1", dates |-> ds], [sheetId |-> "s2", dates |-> <<d>>]>> :
            ds \in DateLists,
            d \in {di \in CalDateInfos : di.startDate = DayStr(MaxDay)}}

CInit ==
    /\ html = <<>> /\ literal = NoData /\ xpc = "idle"
    /\ startIndex = 0 /\ i = 0 /\ braceCount = 0 /\ endIndex = 0
    /\ started = FALSE /\ hwSheet = NoData /\ thrown = FALSE
    /\ DIdle
    /\ now = 0
    /\ tz \in TZOffsets
    /\ events \in EventLists
    /\ calendar = <<>>
    /\ issued = {}
    /\ cpc = "run"
    /\ OIdle

\* one run of generateCalendar at the current clock
RunGenerateCalendar ==
    /\ cpc = "run"
    /\ calendar' = GenerateCalendar(events, 1, now, tz)
    /\ issued' = issued \cup
          {[sheetId |-> calendar'[n].sheetId, src |-> calendar'[n].src,
            id |-> calendar'[n].id] : n \in 1 .. Len(calendar')}
    /\ cpc' = "wait"
    /\ UNCHANGED <<xvars, now, tz, dvars, events, ovars>>

\* time passes until the next run (a fresh process, an empty calendar)
NextRun ==
    /\ cpc = "wait"
    /\ now + ClockStep \in Clocks
    /\ now' = now + ClockStep
    /\ calendar' = <<>>
    /\ cpc' = "run"
    /\ UNCHANGED <<xvars, tz, dvars, events, issued, ovars>>

CNext == RunGenerateCalendar \/ NextRun

SpecCal == CInit /\ [][CNext]_vars

-----------------------------------------------------------------------------
(* transformHwSheetToEvent, isEventTooLong, isExposition, fetchEventFromUrl *)

NoEvent == [k |-> "null"]

Pending == [k |-> "pending"]

\* extractHwSheetFromHtml returned null for the page
NoSheet == [k |-> "nosheet"]

\* lines 61-80: one period of the sheet as a date occurrence
PeriodToDate(period) ==
    [oneday |-> period.isOneDay,
     startDate |-> period.startDate,
     endDate |-> period.endDate,
     startTime |-> FormatStartTime(period.startTime)]

\* lines 59-108; the descriptive fields (type, description, town, address,
\* gps, phone) play no part in what follows and are left out
TransformHwSheetToEvent(sheet, url) ==
    [k |-> "event",
     sheetId |-> sheet.sheetId,
     bordereau |-> sheet.bordereau,
     title |-> sheet.businessName,
     dates |-> [n \in 1 .. Len(sheet.periods) |-> PeriodToDate(sheet.periods[n])],
     url |-> url]

\* the ceiling of lines 129 and 137, in days
MaxSpanDays == 31

\* (new Date(b) - new Date(a)) / day > 31; false when either is invalid
DaysApartExceed(a, b) ==
    /\ NewDate(a).valid /\ NewDate(b).valid
    /\ NewDate(b).t - NewDate(a).t > MaxSpanDays * MinutesPerDay

\* lines 121-141; the start dates are sorted as text: ISO dates sort by day,
\* and an unparseable text sorts after them
IsEventTooLong(event) ==
    IF Len(event.dates) = 0 THEN FALSE
    ELSE \/ \E n \in 1 .. Len(event.dates) :
               /\ event.dates[n].startDate.k # "missing"
               /\ event.dates[n].endDate.k # "missing"
               /\ DaysApartExceed(event.dates[n].startDate, event.dates[n].endDate)
         \/ LET starts == {n \in 1 .. Len(event.dates) :
                              event.dates[n].startDate.k # "missing"}
                days == {event.dates[n].startDate.d : n \in
                            {m \in starts : event.dates[m].startDate.k = "day"}}
                first == IF days = {} THEN BadDateStr ELSE DayStr(Min(days))
                last == IF \E n \in starts : event.dates[n].startDate.k = "bad"
                        THEN BadDateStr
                        ELSE DayStr(Max(days))
            IN  Cardinality(starts) >= 2 /\ DaysApartExceed(first, last)

\* String.prototype.toLowerCase, for the capitals the titles use
LowerOf(c) ==
    CASE c = "E" -> "e"
      [] c = "X" -> "x"
      [] c = "P" -> "p"
      [] c = "O" -> "o"
      [] c = "C" -> "c"
      [] OTHER -> c

ToLowerCase(s) == [p \in 1 .. Len(s) |-> LowerOf(s[p])]

\* String.prototype.includes
Includes(s, m) == IndexOf(s, m) # -1

\* lines 143-146
IsExposition(event) ==
    LET title == ToLowerCase(event.title)
    IN  \/ Includes(title, <<"e", "x", "p", "o">>)
        \/ Includes(title, <<"e", "x", "h", "i", "b", "i", "t", "i", "o", "n">>)

\* lines 148-172: resp is the outcome of fetch(url); a page is represented by
\* the sheet extractHwSheetFromHtml returns for it
FetchEventFromUrl(url, resp) ==
    IF resp.kind = "neterr" THEN NoEvent
    ELSE IF resp.kind = "notok" THEN NoEvent
    ELSE IF resp.sheet = NoSheet THEN NoEvent
    ELSE IF resp.sheet.bordereau # "FMA" THEN NoEvent
    ELSE LET event == TransformHwSheetToEvent(resp.sheet, url)
         IN  IF IsEventTooLong(event) \/ IsExposition(event) THEN NoEvent
             ELSE event

-----------------------------------------------------------------------------
(* fetchUrlsFromSitemap, fetchAllEvents, main *)

\* CONFIG.sitemapUrls has two entries
NumSitemaps == 2

\* CONFIG.scraping.concurrency: 10 in the source, scaled down with the
\* numbers of URLs of the model
Concurrency == 2

Url(offre, n) == [offre |-> offre, n |-> n]

\* u.includes("/offres/")
IsOffreUrl(u) == u.offre

\* the <loc> entries of the sitemap documents a fetch may return
SitemapDocs ==
    { <<>>,
      <<Url(TRUE, 1), Url(FALSE, 9)>>,
      <<Url(TRUE, 1), Url(TRUE, 2)>>,
      <<Url(TRUE, 2), Url(FALSE, 9), Url(TRUE, 3), Url(TRUE, 4)>> }

Period(a, b) == [startDate |-> a, endDate |-> b, isOneDay |-> FALSE, startTime |-> NoText]

Sheet(id, b, name, ps) == [sheetId |-> id, bordereau |-> b, businessName |-> name, periods |-> ps]

\* the sheets the pages of the site may embed
Sheets ==
    { Sheet("A", "FMA", <<"C", "o", "n", "c", "e", "r", "t">>, <<Period(DayStr(1), NoDateStr)>>),
      Sheet("A", "FMA", <<"B", "a", "l">>, <<Period(DayStr(2), NoDateStr)>>),
      Sheet("B", "FMA", <<"B", "a", "l">>, <<>>),
      Sheet("C", "HOT", <<"B", "a", "l">>, <<>>),
      Sheet("D", "FMA", <<"E", "x", "p", "o">>, <<>>),
      Sheet("E", "FMA", <<"B", "a", "l">>, <<Period(DayStr(0), DayStr(40))>>),
      Sheet("F", "FMA", <<"B", "a", "l">>,
            <<Period(DayStr(40), NoDateStr), Period(DayStr(0), NoDateStr)>>) }

\* the outcomes of fetch(url) for a page
PageResponses ==
    { [kind |-> "neterr", sheet |-> NoSheet],
      [kind |-> "notok", sheet |-> NoSheet],
      [kind |-> "ok", sheet |-> NoSheet] }
    \cup {[kind |-> "ok", sheet |-> sh] : sh \in Sheets}

\* Array.prototype.filter
RECURSIVE FilterOffres(_, _)
FilterOffres(urls, n) ==
    IF n > Len(urls) THEN <<>>
    ELSE (IF IsOffreUrl(urls[n]) THEN <<urls[n]>> ELSE <<>>) \o FilterOffres(urls, n + 1)

OInit ==
    /\ html = <<>> /\ literal = NoData /\ xpc = "idle"
    /\ startIndex = 0 /\ i = 0 /\ braceCount = 0 /\ endIndex = 0
    /\ started = FALSE /\ hwSheet = NoData /\ thrown = FALSE
    /\ now = 0 /\ tz = 0
    /\ DIdle
    /\ CIdle
    /\ pc = "sitemaps"
    /\ sitemapIdx = 0
    /\ allUrls = <<>>
    /\ batchI = 0
    /\ inflight = {}
    /\ results = <<>>
    /\ allEvents = <<>>
    /\ seen = <<>>
    /\ fetchCount = <<>>
    /\ exitCode = 0

\* lines 178-183, one iteration: the sitemap was fetched and urls are its
\* <loc> entries (none for a non-success status)
SitemapFetched(urls) ==
    /\ allUrls' = allUrls \o FilterOffres(urls, 1)
    /\ sitemapIdx' = sitemapIdx + 1
    /\ IF sitemapIdx' = NumSitemaps
       THEN /\ pc' = "loop"
            /\ fetchCount' = [p \in 1 .. Len(allUrls') |-> 0]
       ELSE UNCHANGED <<pc, fetchCount>>
    /\ UNCHANGED <<batchI, inflight, results, allEvents, seen, exitCode>>

\* lines 111, 116-118: response.ok
SitemapOk ==
    /\ pc = "sitemaps"
    /\ \E doc \in SitemapDocs : SitemapFetched(doc)
    /\ UNCHANGED <<xvars, now, tz, dvars, cvars>>

\* lines 112-114: !response.ok
SitemapNotOk ==
    /\ pc = "sitemaps"
    /\ SitemapFetched(<<>>)
    /\ UNCHANGED <<xvars, now, tz, dvars, cvars>>

\* line 111: fetch rejects; nothing catches it before main().catch
\* (lines 370-373)
SitemapNetworkError ==
    /\ pc = "sitemaps"
    /\ pc' = "fatal"
    /\ exitCode' = 1
    /\ UNCHANGED <<sitemapIdx, allUrls, batchI, inflight, results, allEvents,
                   seen, fetchCount>>
    /\ UNCHANGED <<xvars, now, tz, dvars, cvars>>

BatchPositionsOneMore(urls, k) == (k + 1) .. Min({k + Concurrency + 1, Len(urls)})

\* allUrls.slice(i, i + concurrency), as 1-based positions of allUrls
BatchPositions(urls, k) == (k + 1) .. Min({k + Concurrency, Len(urls)})

\* lines 193-195: the loop test holds; every fetch of the batch is started
StartBatch ==
    /\ pc = "loop"
    /\ batchI < Len(allUrls)
    /\ LET batch == BatchPositions(allUrls, batchI)
       IN  /\ inflight' = batch
           /\ results' = [n \in 1 .. Cardinality(batch) |-> Pending]
           /\ fetchCount' = [p \in 1 .. Len(allUrls) |->
                                IF p \in batch THEN fetchCount[p] + 1
                                ELSE fetchCount[p]]
    /\ pc' = "await"
    /\ UNCHANGED <<sitemapIdx, allUrls, batchI, allEvents, seen, exitCode>>
    /\ UNCHANGED <<xvars, now, tz, dvars, cvars>>

\* one fetchEventFromUrl of the batch settles
CompleteFetch ==
    /\ pc = "await"
    /\ \E p \in inflight : \E resp \in PageResponses :
          /\ results' = [results EXCEPT ![p - batchI] = FetchEventFromUrl(allUrls[p], resp)]
          /\ inflight' = inflight \ {p}
    /\ UNCHANGED <<pc, sitemapIdx, allUrls, batchI, allEvents, seen, fetchCount,
                   exitCode>>
    /\ UNCHANGED <<xvars, now, tz, dvars, cvars>>

\* allEvents.has(sheetId)
Has(map, sheetId) == \E n \in 1 .. Len(map) : map[n].sheetId = sheetId

MergeOneOverwrite(map, event) ==
    IF event = NoEvent THEN map
    ELSE IF Has(map, event.sheetId)
    THEN [n \in 1 .. Len(map) |->
            IF map[n].sheetId = event.sheetId THEN event ELSE map[n]]
    ELSE Append(map, event)

\* lines 198-201, for one result
MergeOne(map, event) ==
    IF event # NoEvent /\ ~Has(map, event.sheetId) THEN Append(map, event) ELSE map

\* lines 197-202
RECURSIVE MergeResults(_, _, _)
MergeResults(map, rs, n) ==
    IF n > Len(rs) THEN map
    ELSE MergeResults(MergeOne(map, rs[n]), rs, n + 1)

RECURSIVE NonNull(_, _)
NonNull(rs, n) ==
    IF n > Len(rs) THEN <<>>
    ELSE (IF rs[n] # NoEvent THEN <<rs[n]>> ELSE <<>>) \o NonNull(rs, n + 1)

\* i += concurrency
NextBatchI(k) == k + Concurrency

\* lines 195-213: Promise.all has resolved; the results are merged in order
\* and the loop either sleeps or goes round
MergeBatch ==
    /\ pc = "await"
    /\ inflight = {}
    /\ allEvents' = MergeResults(allEvents, results, 1)
    /\ seen' = seen \o NonNull(results, 1)
    /\ results' = <<>>
    /\ IF batchI + Concurrency < Len(allUrls)
       THEN /\ pc' = "delay"
            /\ UNCHANGED batchI
       ELSE /\ pc' = "loop"
            /\ batchI' = NextBatchI(batchI)
    /\ UNCHANGED <<sitemapIdx, allUrls, inflight, fetchCount, exitCode>>
    /\ UNCHANGED <<xvars, now, tz, dvars, cvars>>

\* line 212: the inter-batch delay has elapsed
DelayElapsed ==
    /\ pc = "delay"
    /\ batchI' = NextBatchI(batchI)
    /\ pc' = "loop"
    /\ UNCHANGED <<sitemapIdx, allUrls, inflight, results, allEvents, seen,
                   fetchCount, exitCode>>
    /\ UNCHANGED <<xvars, now, tz, dvars, cvars>>

\* lines 216-218: the loop test fails; the values of the map are returned
Finish ==
    /\ pc = "loop"
    /\ batchI >= Len(allUrls)
    /\ pc' = "done"
    /\ UNCHANGED <<sitemapIdx, allUrls, batchI, inflight, results, allEvents,
                   seen, fetchCount, exitCode>>
    /\ UNCHANGED <<xvars, now, tz, dvars, cvars>>

Next ==
    \/ SitemapOk
    \/ SitemapNotOk
    \/ SitemapNetworkError
    \/ StartBatch
    \/ CompleteFetch
    \/ MergeBatch
    \/ DelayElapsed
    \/ Finish

Spec == OInit /\ [][Next]_vars

-----------------------------------------------------------------------------
(* extractHwSheetFromHtml *)

XInit ==
    /\ \E d \in Documents : html = d.html /\ literal = d.literal
    /\ xpc = "indexOf"
    /\ startIndex = 0
    /\ i = 0
    /\ braceCount = 0
    /\ endIndex = 0
    /\ started = FALSE
    /\ hwSheet = NoData
    /\ thrown = FALSE
    /\ now = 0
    /\ tz = 0
    /\ DIdle
    /\ CIdle
    /\ OIdle

\* lines 29-36
FindMarker ==
    /\ xpc = "indexOf"
    /\ startIndex' = IndexOf(html, Marker)
    /\ IF startIndex' = -1
       THEN /\ xpc' = "done"
            /\ hwSheet' = NoData
            /\ UNCHANGED <<i, braceCount, endIndex, started>>
       ELSE /\ xpc' = "scan"
            /\ braceCount' = 0
            /\ endIndex' = startIndex' + MarkerOffset
            /\ started' = FALSE
            /\ i' = startIndex'
            /\ UNCHANGED hwSheet
    /\ UNCHANGED <<html, literal, thrown, now, tz, dvars, cvars, ovars>>

\* the break condition of line 44
ClosesLiteral(st, bc) == st /\ bc = 0

\* lines 38-49: one iteration of the loop, or its exit
ScanStep ==
    /\ xpc = "scan"
    /\ IF i < Len(html)
       THEN IF CharAt(html, i) = "{"
            THEN /\ braceCount' = braceCount + 1
                 /\ started' = TRUE
                 /\ i' = i + 1
                 /\ UNCHANGED <<endIndex, xpc>>
            ELSE IF CharAt(html, i) = "}"
            THEN /\ braceCount' = braceCount - 1
                 /\ UNCHANGED started
                 /\ IF ClosesLiteral(started, braceCount')
                    THEN /\ endIndex' = i + 1
                         /\ xpc' = "parse"
                         /\ UNCHANGED i
                    ELSE /\ i' = i + 1
                         /\ UNCHANGED <<endIndex, xpc>>
            ELSE /\ i' = i + 1
                 /\ UNCHANGED <<braceCount, started, endIndex, xpc>>
       ELSE /\ xpc' = "parse"
            /\ UNCHANGED <<i, braceCount, started, endIndex>>
    /\ UNCHANGED <<html, literal, startIndex, hwSheet, thrown, now, tz, dvars, cvars, ovars>>

TryDeserializeNoCatch(jsonStr) ==
    LET r == JSONParse(jsonStr)
    IN  [value |-> r.val, thrown |-> ~r.ok]

\* lines 51-56: try { JSON.parse } catch { return null }
TryDeserialize(jsonStr) ==
    LET r == JSONParse(jsonStr)
    IN  IF r.ok THEN [value |-> r.val, thrown |-> FALSE]
        ELSE [value |-> NoData, thrown |-> FALSE]

Deserialize ==
    /\ xpc = "parse"
    /\ LET jsonStr == Substring(html, startIndex + MarkerOffset, endIndex)
           r == TryDeserialize(jsonStr)
       IN  /\ hwSheet' = r.value
           /\ thrown' = r.thrown
    /\ xpc' = "done"
    /\ UNCHANGED <<html, literal, startIndex, i, braceCount, endIndex, started,
                   now, tz, dvars, cvars, ovars>>

XNext == FindMarker \/ ScanStep \/ Deserialize

SpecExtract == XInit /\ [][XNext]_vars

-----------------------------------------------------------------------------
(* Properties of extractHwSheetFromHtml *)

MarkerAbsent(h) ==
    \A p \in 0 .. (Len(h) - Len(Marker)) : SubSeq(h, p + 1, p + Len(Marker)) # Marker

\* opening minus closing braces among the characters a..b (0-based)
Balance(h, a, b) ==
    Cardinality({q \in a .. b : CharAt(h, q) = "{"})
    - Cardinality({q \in a .. b : CharAt(h, q) = "}"})

\* the positions, from s on, where the balance is back to zero after having
\* gone positive
ClosePoints(h, s) ==
    {e \in s .. (Len(h) - 1) :
        /\ CharAt(h, e) = "}"
        /\ Balance(h, s, e) = 0
        /\ \E q \in s .. e : CharAt(h, q) = "{"}

FirstMarker(h) == Min({p \in 0 .. (Len(h) - Len(Marker)) :
                         SubSeq(h, p + 1, p + Len(Marker)) = Marker})

\* what the extractor is to return for document h
ExpectedSheet(h) ==
    IF MarkerAbsent(h) THEN NoData
    ELSE LET s == FirstMarker(h)
         IN  IF ClosePoints(h, s) = {} THEN NoData
             ELSE LET e == Min(ClosePoints(h, s))
                      r == JSONParse(SubSeq(h, s + MarkerOffset + 1, e + 1))
                  IN  IF r.ok THEN r.val ELSE NoData

\* C2: for a document that embeds a well-formed object literal after the
\* marker (nested braces, string values holding brace characters), the span
\* handed to the deserializer ends at the literal's own closing brace and the
\* returned value is the embedded structure.
C2_LiteralIsolated ==
    (xpc = "done" /\ literal # NoData) =>
        /\ endIndex = startIndex + MarkerOffset + Len(Stringify(literal))
        /\ hwSheet = literal

\* C3: the extractor never throws; it returns "no data" when the marker is
\* absent, when the scan ends without the balance returning to zero, and when
\* the isolated span does not deserialize; otherwise it returns the
\* deserialized value.
C3_ExtractorTotal ==
    /\ ~thrown
    /\ xpc = "done" => hwSheet = ExpectedSheet(html)

\* C3 witness: the marker is present, the balance never returns to zero, and
\* the extractor has returned "no data" without throwing
C3_Witness ==
    /\ xpc = "done"
    /\ ~MarkerAbsent(html)
    /\ ClosePoints(html, FirstMarker(html)) = {}
    /\ hwSheet = NoData
    /\ ~thrown

-----------------------------------------------------------------------------
(* Properties of parseDateOccurrence *)

\* the local calendar date (a day number) of an instant
LocalDay(t, offset) == (t + offset) \div MinutesPerDay

\* the instant of local midnight on the local date on which day d begins in
\* UTC: day d itself east of Greenwich, the day before west of it
LocalMidnightOf(d, offset) ==
    (IF offset >= 0 THEN d ELSE d - 1) * MinutesPerDay - offset

\* C4: every resolved occurrence (start and end both instants) satisfies
\* end >= start.
C4_EndNotBeforeStart ==
    (dpc = "done" /\ resolved.some /\ resolved.start.valid /\ resolved.end.valid)
        => resolved.end.t >= resolved.start.t

\* the occurrences C9 is about: a resolved occurrence with a start time that
\* matches the pattern, and no end date or the oneday flag
C9_Case ==
    /\ dpc = "done"
    /\ resolved.some
    /\ ParseTime(dateInfo.startTime).match
    /\ (dateInfo.endDate.k = "missing" \/ dateInfo.oneday)

-----------------------------------------------------------------------------
(* Properties of parseEventDates and generateCalendar *)

EventOf(sheetId) == CHOOSE ev \in {events[n] : n \in 1 .. Len(events)} : ev.sheetId = sheetId

\* the source occurrence a calendar entry was made from
SourceOf(e) == EventOf(e.sheetId).dates[e.src]

\* the occurrence has an entry in the calendar of the current run
Emitted(sheetId, j) ==
    \E n \in 1 .. Len(calendar) : calendar[n].sheetId = sheetId /\ calendar[n].src = j

\* no occurrence whose resolved end is strictly before the instant of the
\* run has an entry in the calendar of that run
ExpiredNotEmitted ==
    cpc = "wait" =>
        \A m \in 1 .. Len(events) : \A j \in 1 .. Len(events[m].dates) :
            DateLt(ResolveDates(events[m].dates[j], tz).end, Instant(now))
                => ~Emitted(events[m].sheetId, j)

\* C5: the feed never contains past events: an occurrence whose resolved end
\* is strictly before the instant of the run gets no calendar entry, and
\* every calendar entry has end >= the instant at which it was resolved.
C5_NoPastEntries ==
    /\ ExpiredNotEmitted
    /\ \A n \in 1 .. Len(calendar) :
          /\ calendar[n].end = ResolveDates(SourceOf(calendar[n]), tz).end
          /\ calendar[n].end.valid
          /\ calendar[n].end.t >= calendar[n].at

\* what the expiry test of line 270 does ensure: no expired occurrence is
\* emitted, and an end that is an instant is not before the run
ExpiryTestSound ==
    /\ ExpiredNotEmitted
    /\ \A n \in 1 .. Len(calendar) :
          calendar[n].end.valid => calendar[n].end.t >= calendar[n].at

\* C6: an occurrence emitted in two runs has the same identifier in both.
C6_StableIds ==
    \A a \in issued : \A b \in issued :
        (a.sheetId = b.sheetId /\ a.src = b.src) => a.id = b.id

\* C8: no calendar entry has a start or an end that is not a valid instant
\* (an occurrence with a missing or unparseable date resolves to "none").
C8_NoInvalidEntries ==
    \A n \in 1 .. Len(calendar) : calendar[n].start.valid /\ calendar[n].end.valid

-----------------------------------------------------------------------------
(* Properties of fetchAllEvents *)

\* the first event of the processing order that has the sheetId of seen[n]
FirstSeen(n) ==
    seen[Min({m \in 1 .. Len(seen) : seen[m].sheetId = seen[n].sheetId})]

\* C1: the result set holds no two events with the same sheetId, and for
\* each sheetId met in processing order the stored event is the first one
\* met; a later event with that sheetId never replaces or changes it.
C1_FirstOccurrenceWins ==
    /\ \A a \in 1 .. Len(allEvents) : \A b \in 1 .. Len(allEvents) :
          allEvents[a].sheetId = allEvents[b].sheetId => a = b
    /\ \A n \in 1 .. Len(seen) :
          \E a \in 1 .. Len(allEvents) : allEvents[a] = FirstSeen(n)
    /\ \A a \in 1 .. Len(allEvents) :
          \E n \in 1 .. Len(seen) : allEvents[a] = FirstSeen(n)

\* C1 witness: the run is over, two different events with one sheetId were
\* met, and the stored one is the earlier
C1_Witness ==
    /\ pc = "done"
    /\ \E n \in 1 .. Len(seen) : \E m \in 1 .. Len(seen) :
          /\ n < m
          /\ seen[n].sheetId = seen[m].sheetId
          /\ seen[n] # seen[m]
          /\ seen[n] = FirstSeen(n)
          /\ \E a \in 1 .. Len(allEvents) : allEvents[a] = seen[n]

\* C7: a failed fetch of a sitemap or of a page never takes the run to the
\* top-level handler (exit status 1).
C7_FetchFailuresContained == exitCode = 0 /\ pc # "fatal"

====
